---- MODULE Spec2Model ----
(***************************************************************************)
(* Range-update / range-sum segment tree with lazy propagation             *)
(* (src/segment_tree.cc, class SegmentTree).                               *)
(*                                                                         *)
(* The object state is the triple (n, tree, lazy).  The private recursive  *)
(* methods are RECURSIVE operators over a run record                       *)
(*     [tree, lazy, ret, log, acc]                                         *)
(* that threads the two vectors through the recursion exactly in the order *)
(* the C++ statements execute.  `log` and `acc` are history fields: `log`  *)
(* holds one entry per recursive call (appended when the call returns) and *)
(* `acc` the set of vector positions that were read or written.            *)
(***************************************************************************)
EXTENDS Integers, Sequences, FiniteSets

VARIABLES n, tree, lazy, arr, mirror, ops, last

vars == <<n, tree, lazy, arr, mirror, ops, last>>

(***************************************************************************)
(* Bounds of the model.                                                    *)
(***************************************************************************)
MaxN == 3
MaxOps == 3
MaxNCost == 8
MaxOpsCost == 1

Vals == {-1, 2}
Deltas == {-1, 1}

ROOT_NODE == 1

(***************************************************************************)
(* std::vector<int> of a given size, positions 0 .. size-1.                *)
(***************************************************************************)
Vec(size, v) == [i \in 0 .. size - 1 |-> v]

\* operator[] for reading; a vector has no element outside its positions
Rd(a, i) == IF i \in DOMAIN a THEN a[i] ELSE 0

\* operator[] for writing
Wr(a, i, v) == IF i \in DOMAIN a THEN [a EXCEPT ![i] = v] ELSE a

\* tree[i] += d
AddTree(s, i, d) ==
    [s EXCEPT !.tree = Wr(@, i, Rd(@, i) + d), !.acc = @ \cup {i}]

\* lazy[i] += d
AddLazy(s, i, d) ==
    [s EXCEPT !.lazy = Wr(@, i, Rd(@, i) + d), !.acc = @ \cup {i}]

\* tree[i] = v
SetTree(s, i, v) == [s EXCEPT !.tree = Wr(@, i, v), !.acc = @ \cup {i}]

\* lazy[i] = v
SetLazy(s, i, v) == [s EXCEPT !.lazy = Wr(@, i, v), !.acc = @ \cup {i}]

\* a run starts from the object's vectors with nothing logged
Run(t, z) == [tree |-> t, lazy |-> z, ret |-> 0, log |-> <<>>, acc |-> {}]

\* history: one entry per recursive call, appended when the call returns
Visit(before, after, fn, node, start, end, depth, kind) ==
    [after EXCEPT !.log = Append(@,
        [fn |-> fn, node |-> node, start |-> start, end |-> end,
         depth |-> depth, kind |-> kind, ret |-> after.ret,
         tIn |-> before.tree, zIn |-> before.lazy,
         tOut |-> after.tree, zOut |-> after.lazy])]

(***************************************************************************)
(* void push(int node, int start, int end)                                 *)
(***************************************************************************)
\* variant: the node's pending slot is not cleared
push_NoClear(s, node, start, end) ==
    LET d == Rd(s.lazy, node)
        r == [s EXCEPT !.acc = @ \cup {node}]
    IN  IF d # 0
        THEN LET a == AddTree(r, node, d * (end - start + 1))
             IN  IF start # end
                 THEN AddLazy(AddLazy(a, 2 * node, d), 2 * node + 1, d)
                 ELSE a
        ELSE r

\* variant: the children's pending slots are assigned instead of accumulated
push_Overwrite(s, node, start, end) ==
    LET d == Rd(s.lazy, node)
        r == [s EXCEPT !.acc = @ \cup {node}]
    IN  IF d # 0
        THEN LET a == AddTree(r, node, d * (end - start + 1))
                 b == IF start # end
                      THEN SetLazy(SetLazy(a, 2 * node, d), 2 * node + 1, d)
                      ELSE a
             IN  SetLazy(b, node, 0)
        ELSE r

push(s, node, start, end) ==
    LET d == Rd(s.lazy, node)
        r == [s EXCEPT !.acc = @ \cup {node}]
    IN  IF d # 0
        THEN LET a == AddTree(r, node, d * (end - start + 1))
                 b == IF start # end
                      THEN AddLazy(AddLazy(a, 2 * node, d), 2 * node + 1, d)
                      ELSE a
             IN  SetLazy(b, node, 0)
        ELSE r

\* variant: the left child is added twice
Recombine_LeftTwice(s, node) ==
    SetTree([s EXCEPT !.acc = @ \cup {2 * node}], node,
            Rd(s.tree, 2 * node) + Rd(s.tree, 2 * node))

\* tree[node] = tree[2 * node] + tree[2 * node + 1]
Recombine(s, node) ==
    SetTree([s EXCEPT !.acc = @ \cup {2 * node, 2 * node + 1}], node,
            Rd(s.tree, 2 * node) + Rd(s.tree, 2 * node + 1))

(***************************************************************************)
(* The range classification shared by update_recursive and query_recursive *)
(***************************************************************************)
\* variant: only a leaf counts as fully contained
Contained_LeafOnly(start, end, l, r) == start = end /\ l <= start /\ end <= r

Disjoint(start, end, l, r) == start > end \/ start > r \/ end < l

Contained(start, end, l, r) == l <= start /\ end <= r

\* variant: the split point lies a quarter of the way into the range
Mid_Quarter(start, end) == start + (end - start) \div 4

Mid(start, end) == start + (end - start) \div 2

(***************************************************************************)
(* void build_recursive(const vector<int>& arr, int node, int start,       *)
(*                      int end)                                           *)
(***************************************************************************)
RECURSIVE build_recursive(_, _, _, _, _, _)
build_recursive(s, a, node, start, end, depth) ==
    IF start = end
    THEN Visit(s, SetTree(s, node, Rd(a, start)),
               "build", node, start, end, depth, "leaf")
    ELSE LET mid == Mid(start, end)
             c1 == build_recursive(s, a, 2 * node, start, mid, depth + 1)
             c2 == build_recursive(c1, a, 2 * node + 1, mid + 1, end, depth + 1)
         IN  Visit(s, Recombine(c2, node),
                   "build", node, start, end, depth, "inner")

(***************************************************************************)
(* void update_recursive(int node, int start, int end, int l, int r,       *)
(*                       int val)                                          *)
(***************************************************************************)
\* variant: the delta is added once instead of once per covered element
update_contained_NoLength(p, node, start, end, val) ==
    LET a == AddTree(p, node, val)
    IN  IF start # end
        THEN AddLazy(AddLazy(a, 2 * node, val), 2 * node + 1, val)
        ELSE a

\* Case 2 of update_recursive: [start, end] lies inside [l, r]
update_contained(p, node, start, end, val) ==
    LET a == AddTree(p, node, val * (end - start + 1))
    IN  IF start # end
        THEN AddLazy(AddLazy(a, 2 * node, val), 2 * node + 1, val)
        ELSE a

RECURSIVE update_recursive(_, _, _, _, _, _, _, _)

\* variant: the push-down is run only after the disjoint test, as in
\* query_recursive
update_recursive_LatePush(s, node, start, end, l, r, val, depth) ==
    IF Disjoint(start, end, l, r)
    THEN Visit(s, s, "update", node, start, end, depth, "disjoint")
    ELSE LET p == push(s, node, start, end)
         IN  IF Contained(start, end, l, r)
             THEN Visit(s, update_contained(p, node, start, end, val),
                        "update", node, start, end, depth, "contained")
             ELSE LET mid == Mid(start, end)
                      c1 == update_recursive(p, 2 * node, start, mid, l, r, val,
                                             depth + 1)
                      c2 == update_recursive(c1, 2 * node + 1, mid + 1, end, l,
                                             r, val, depth + 1)
                  IN  Visit(s, Recombine(c2, node),
                            "update", node, start, end, depth, "partial")

update_recursive(s, node, start, end, l, r, val, depth) ==
    LET p == push(s, node, start, end)
    IN  IF Disjoint(start, end, l, r)
        THEN Visit(s, p, "update", node, start, end, depth, "disjoint")
        ELSE IF Contained(start, end, l, r)
        THEN Visit(s, update_contained(p, node, start, end, val),
                   "update", node, start, end, depth, "contained")
        ELSE LET mid == Mid(start, end)
                 c1 == update_recursive(p, 2 * node, start, mid, l, r, val,
                                        depth + 1)
                 c2 == update_recursive(c1, 2 * node + 1, mid + 1, end, l, r,
                                        val, depth + 1)
             IN  Visit(s, Recombine(c2, node),
                       "update", node, start, end, depth, "partial")

(***************************************************************************)
(* int query_recursive(int node, int start, int end, int l, int r)         *)
(***************************************************************************)
RECURSIVE query_recursive(_, _, _, _, _, _, _)

\* variant: the push-down is run before the disjoint test, as in
\* update_recursive
query_recursive_EarlyPush(s, node, start, end, l, r, depth) ==
    LET p == push(s, node, start, end)
    IN  IF Disjoint(start, end, l, r)
        THEN Visit(s, [p EXCEPT !.ret = 0],
                   "query", node, start, end, depth, "disjoint")
        ELSE IF Contained(start, end, l, r)
        THEN Visit(s, [p EXCEPT !.ret = Rd(p.tree, node),
                                !.acc = @ \cup {node}],
                   "query", node, start, end, depth, "contained")
        ELSE LET mid == Mid(start, end)
                 c1 == query_recursive(p, 2 * node, start, mid, l, r,
                                       depth + 1)
                 c2 == query_recursive(c1, 2 * node + 1, mid + 1, end, l, r,
                                       depth + 1)
             IN  Visit(s, [c2 EXCEPT !.ret = c1.ret + c2.ret],
                       "query", node, start, end, depth, "partial")

query_recursive(s, node, start, end, l, r, depth) ==
    IF Disjoint(start, end, l, r)
    THEN Visit(s, [s EXCEPT !.ret = 0],
               "query", node, start, end, depth, "disjoint")
    ELSE LET p == push(s, node, start, end)
         IN  IF Contained(start, end, l, r)
             THEN Visit(s, [p EXCEPT !.ret = Rd(p.tree, node),
                                     !.acc = @ \cup {node}],
                        "query", node, start, end, depth, "contained")
             ELSE LET mid == Mid(start, end)
                      c1 == query_recursive(p, 2 * node, start, mid, l, r,
                                            depth + 1)
                      c2 == query_recursive(c1, 2 * node + 1, mid + 1, end, l, r,
                                            depth + 1)
                  IN  Visit(s, [c2 EXCEPT !.ret = c1.ret + c2.ret],
                            "query", node, start, end, depth, "partial")

(***************************************************************************)
(* SegmentTree(const vector<int>& arr)                                     *)
(***************************************************************************)
\* variant: the vectors are sized 2 * n
SegmentTree_TwoN(a) ==
    LET sz == Cardinality(DOMAIN a)
    IN  IF sz = 0
        THEN Run(<<>>, <<>>)
        ELSE build_recursive(Run(Vec(2 * sz, 0), Vec(2 * sz, 0)),
                             a, ROOT_NODE, 0, sz - 1, 0)

SegmentTree(a) ==
    LET sz == Cardinality(DOMAIN a)
    IN  IF sz = 0
        THEN Run(<<>>, <<>>)
        ELSE build_recursive(Run(Vec(4 * sz, 0), Vec(4 * sz, 0)),
                             a, ROOT_NODE, 0, sz - 1, 0)

(***************************************************************************)
(* void updateRange(int l, int r, int val)                                 *)
(***************************************************************************)
\* variant: the empty tree is not tested and the upper bound is off by one
updateRange_OffByOne(sz, t, z, l, r, val) ==
    IF l < 0 \/ r > sz \/ l > r
    THEN Run(t, z)
    ELSE update_recursive(Run(t, z), ROOT_NODE, 0, sz - 1, l, r, val, 0)

updateRange(sz, t, z, l, r, val) ==
    IF sz = 0 \/ l < 0 \/ r >= sz \/ l > r
    THEN Run(t, z)
    ELSE update_recursive(Run(t, z), ROOT_NODE, 0, sz - 1, l, r, val, 0)

(***************************************************************************)
(* int queryRange(int l, int r)                                            *)
(***************************************************************************)
\* variant: the upper bound of the range test is off by one
queryRange_OffByOne(sz, t, z, l, r) ==
    IF sz = 0 \/ l < 0 \/ r > sz \/ l > r
    THEN Run(t, z)
    ELSE query_recursive(Run(t, z), ROOT_NODE, 0, sz - 1, l, r, 0)

queryRange(sz, t, z, l, r) ==
    IF sz = 0 \/ l < 0 \/ r >= sz \/ l > r
    THEN Run(t, z)
    ELSE query_recursive(Run(t, z), ROOT_NODE, 0, sz - 1, l, r, 0)

(***************************************************************************)
(* The brute-force mirror: the logical array the tree stands for.          *)
(***************************************************************************)
ValidRange(sz, l, r) == 0 <= l /\ l <= r /\ r < sz

MirrorAdd(m, l, r, val) ==
    [i \in DOMAIN m |-> IF l <= i /\ i <= r THEN m[i] + val ELSE m[i]]

RECURSIVE RangeSum(_, _, _)
RangeSum(m, l, r) == IF l > r THEN 0 ELSE m[l] + RangeSum(m, l + 1, r)

(***************************************************************************)
(* The nodes of the tree with the ranges the traversals give them: the     *)
(* root covers [0, n-1], the children of a node covering [start, end]      *)
(* cover [start, mid] and [mid+1, end].  `anc` lists the strict ancestors. *)
(***************************************************************************)
RECURSIVE Layout(_, _, _, _)
Layout(node, start, end, anc) ==
    {[node |-> node, start |-> start, end |-> end, anc |-> anc]}
    \cup (IF start >= end
          THEN {}
          ELSE Layout(2 * node, start, Mid(start, end), Append(anc, node))
               \cup Layout(2 * node + 1, Mid(start, end) + 1, end,
                           Append(anc, node)))

Nodes == IF n = 0 THEN {} ELSE Layout(ROOT_NODE, 0, n - 1, <<>>)

(***************************************************************************)
(* The record of the call that produced the current state.                 *)
(***************************************************************************)
Last(op, l, r, val, run, t0, z0, m0) ==
    [op |-> op, l |-> l, r |-> r, val |-> val, ret |-> run.ret,
     log |-> run.log, acc |-> run.acc, tree0 |-> t0, lazy0 |-> z0,
     mirror0 |-> m0]

(***************************************************************************)
(* State machine: construction, then any sequence of public calls.         *)
(***************************************************************************)
Construct(maxn, budget, vals) ==
    \E k \in 0 .. maxn :
        \E a \in [0 .. k - 1 -> vals] :
            LET run == SegmentTree(a)
            IN  /\ n = k
                /\ tree = run.tree
                /\ lazy = run.lazy
                /\ arr = a
                /\ mirror = a
                /\ ops = budget
                /\ last = Last("construct", 0, k - 1, 0, run, <<>>, <<>>, a)

Init == Construct(MaxN, MaxOps, Vals)

UpdateRange ==
    /\ ops > 0
    /\ \E l \in -1 .. n, r \in -1 .. n, val \in Deltas :
          LET run == updateRange(n, tree, lazy, l, r, val)
          IN  /\ tree' = run.tree
              /\ lazy' = run.lazy
              /\ mirror' = IF ValidRange(n, l, r)
                           THEN MirrorAdd(mirror, l, r, val)
                           ELSE mirror
              /\ last' = Last("update", l, r, val, run, tree, lazy, mirror)
    /\ ops' = ops - 1
    /\ UNCHANGED <<n, arr>>

QueryRange ==
    /\ ops > 0
    /\ \E l \in -1 .. n, r \in -1 .. n :
          LET run == queryRange(n, tree, lazy, l, r)
          IN  /\ tree' = run.tree
              /\ lazy' = run.lazy
              /\ last' = Last("query", l, r, 0, run, tree, lazy, mirror)
    /\ ops' = ops - 1
    /\ UNCHANGED <<n, arr, mirror>>

Next == UpdateRange \/ QueryRange

\* the data members: n, and two vectors of 4 * n ints (none when n = 0)
TypeOK ==
    /\ n \in Nat
    /\ DOMAIN tree = 0 .. 4 * n - 1
    /\ DOMAIN lazy = 0 .. 4 * n - 1
    /\ \A i \in DOMAIN tree : tree[i] \in Int /\ lazy[i] \in Int

Spec == Init /\ [][Next]_vars

\* Larger trees, one call each: the shape of a traversal does not depend on
\* the stored values.
InitCost == Construct(MaxNCost, MaxOpsCost, {1})

SpecCost == InitCost /\ [][Next]_vars

(***************************************************************************)
(* Properties.                                                             *)
(***************************************************************************)
ValidRanges == {lr \in (0 .. n - 1) \X (0 .. n - 1) : lr[1] <= lr[2]}

\* what queryRange(l, r) returns when called in the current state
QueryNow(l, r) == queryRange(n, tree, lazy, l, r).ret

\* what queryRange(l, r) returned, or would have, right before the last call
QueryBefore(l, r) == queryRange(n, last.tree0, last.lazy0, l, r).ret

\* C1: after construction and any sequence of updateRange and queryRange
\* calls, every valid queryRange(l, r) returns the sum over [l, r] of the
\* brute-force mirror array (so overlapping updates act as per-index sums of
\* their deltas); this holds of the query just executed and of every query
\* that could be issued next.
C1_QueryMatchesMirror ==
    /\ \A lr \in ValidRanges :
           QueryNow(lr[1], lr[2]) = RangeSum(mirror, lr[1], lr[2])
    /\ (last.op = "query" /\ ValidRange(n, last.l, last.r))
           => last.ret = RangeSum(mirror, last.l, last.r)

\* C1 witness: a valid query has run after two overlapping updates: some
\* index received both deltas and some index only one of them.
C1_Witness ==
    /\ last.op = "query"
    /\ ValidRange(n, last.l, last.r)
    /\ last.r > last.l
    /\ last.ret = RangeSum(mirror, last.l, last.r)
    /\ \E i, j \in last.l .. last.r :
           /\ mirror[i] - arr[i] \in {-2, 2}
           /\ mirror[j] - arr[j] \in {-1, 1}

\* C2: after a valid updateRange(l, r, delta), queryRange(l, r) is exactly
\* delta * (r - l + 1) larger than it was right before the update, and
\* queryRange(a, b) of every valid range disjoint from [l, r] is unchanged.
C2_UpdateQueryConsistency ==
    (last.op = "update" /\ ValidRange(n, last.l, last.r)) =>
        /\ QueryNow(last.l, last.r)
              = QueryBefore(last.l, last.r) + last.val * (last.r - last.l + 1)
        /\ \A ab \in ValidRanges :
              (ab[2] < last.l \/ ab[1] > last.r)
                 => QueryNow(ab[1], ab[2]) = QueryBefore(ab[1], ab[2])

\* C2 witness: a valid update of a range of two elements, on a tree that
\* already carried pending deltas, with a valid range disjoint from it.
C2_Witness ==
    /\ last.op = "update"
    /\ ValidRange(n, last.l, last.r)
    /\ last.r = last.l + 1
    /\ \E i \in DOMAIN last.lazy0 : last.lazy0[i] # 0
    /\ \E ab \in ValidRanges : ab[2] < last.l \/ ab[1] > last.r
    /\ QueryNow(last.l, last.r) = QueryBefore(last.l, last.r) + 2 * last.val

\* C3: right after construction from A (N >= 1), before any update,
\* queryRange(l, r) = A[l] + ... + A[r] for every valid range; in
\* particular queryRange(0, N-1) is the sum of A and queryRange(i, i) = A[i].
C3_BuildCorrect ==
    (last.op = "construct" /\ n >= 1) =>
        /\ QueryNow(0, n - 1) = RangeSum(arr, 0, n - 1)
        /\ \A i \in 0 .. n - 1 : QueryNow(i, i) = arr[i]
        /\ \A lr \in ValidRanges :
              QueryNow(lr[1], lr[2]) = RangeSum(arr, lr[1], lr[2])

\* C3 witness: a freshly built tree over three elements that are not all
\* equal (N is not a power of two).
C3_Witness ==
    /\ last.op = "construct"
    /\ n = 3
    /\ arr[0] # arr[2]
    /\ QueryNow(0, 2) = arr[0] + arr[1] + arr[2]
    /\ QueryNow(1, 1) = arr[1]

\* C4: updateRange(l, r, delta) with l < 0, r >= N or l > r is a silent
\* no-op: no recursive call is made, no vector position is touched, the
\* aggregate and pending arrays are unchanged, and so is every query result.
C4_InvalidUpdateNoOp ==
    (last.op = "update" /\ ~ValidRange(n, last.l, last.r)) =>
        /\ tree = last.tree0
        /\ lazy = last.lazy0
        /\ last.log = <<>>
        /\ last.acc = {}
        /\ \A lr \in ValidRanges :
              QueryNow(lr[1], lr[2]) = QueryBefore(lr[1], lr[2])

\* C4 witness: updateRange(-1, 1, delta) on a three-element tree that
\* carries a pending delta: the range overlaps the valid indices and the
\* call still changes nothing.
C4_Witness ==
    /\ last.op = "update"
    /\ n = 3
    /\ last.l = -1
    /\ last.r = 1
    /\ \E i \in DOMAIN lazy : lazy[i] # 0
    /\ tree = last.tree0
    /\ lazy = last.lazy0

\* C5: queryRange(l, r) with l < 0, r >= N or l > r returns 0 whatever the
\* array holds (the range is not clamped), makes no recursive call and
\* leaves the aggregate and pending arrays unchanged.
C5_InvalidQueryZero ==
    (last.op = "query" /\ ~ValidRange(n, last.l, last.r)) =>
        /\ last.ret = 0
        /\ tree = last.tree0
        /\ lazy = last.lazy0
        /\ last.log = <<>>
        /\ last.acc = {}

\* C5 witness: queryRange(2, 3) on a three-element tree whose element 2 is
\* not 0 and that carries a pending delta: the answer is 0, not A[2].
C5_Witness ==
    /\ last.op = "query"
    /\ n = 3
    /\ last.l = 2
    /\ last.r = 3
    /\ mirror[2] # 0
    /\ \E i \in DOMAIN lazy : lazy[i] # 0
    /\ last.ret = 0

\* C6: a tree built from the empty sequence allocates and builds nothing;
\* on it every queryRange returns 0, every updateRange is a no-op, and no
\* call (construction included) makes a recursive call or touches a vector
\* position.
C6_EmptyTree ==
    (n = 0) =>
        /\ tree = <<>>
        /\ lazy = <<>>
        /\ last.ret = 0
        /\ last.log = <<>>
        /\ last.acc = {}
        /\ \A l \in -1 .. 1, r \in -1 .. 1 : QueryNow(l, r) = 0

\* C6 witness: updateRange(0, 0, delta) was called on the empty tree.
C6_Witness ==
    /\ n = 0
    /\ last.op = "update"
    /\ last.l = 0
    /\ last.r = 0
    /\ tree = <<>>
    /\ last.acc = {}

\* ceil(log2(k)) for k >= 1
RECURSIVE CeilLog2From(_, _, _)
CeilLog2From(k, d, pow) == IF pow >= k THEN d ELSE CeilLog2From(k, d + 1, 2 * pow)

CeilLog2(k) == CeilLog2From(k, 0, 1)

\* the recursive calls of the last operation made at a given depth
CallsAtDepth(d) == {i \in DOMAIN last.log : last.log[i].depth = d}

\* C7: every valid updateRange and queryRange call makes at most 4 recursive
\* calls per tree level, levels 0 .. ceil(log2(N)) only, hence at most
\* 4 * (ceil(log2(N)) + 1) recursive calls in all.
C7_LogarithmicVisits ==
    (last.op \in {"update", "query"} /\ ValidRange(n, last.l, last.r)) =>
        /\ Len(last.log) >= 1
        /\ \A i \in DOMAIN last.log :
              /\ last.log[i].depth \in 0 .. CeilLog2(n)
              /\ Cardinality(CallsAtDepth(last.log[i].depth)) <= 4
        /\ Len(last.log) <= 4 * (CeilLog2(n) + 1)

\* C7 witness: an update of [1, 6] on an eight-element tree made four
\* recursive calls on each of the two deepest levels.
C7_Witness ==
    /\ last.op = "update"
    /\ n = 8
    /\ last.l = 1
    /\ last.r = 6
    /\ Cardinality(CallsAtDepth(2)) = 4
    /\ Cardinality(CallsAtDepth(3)) = 4

\* sum of the pending slots z at the positions listed in path
RECURSIVE PendingSum(_, _)
PendingSum(z, path) ==
    IF path = <<>> THEN 0 ELSE z[Head(path)] + PendingSum(z, Tail(path))

RangeLen(v) == v.end - v.start + 1

UpdateVisits ==
    {i \in DOMAIN last.log : last.log[i].fn = "update"}

\* C9 (as stated): a node visited by update_recursive whose range is
\* disjoint from [l, r] is left unmodified: its aggregate, its pending slot
\* and its children's pending slots are the same after the visit as before.
C9_DisjointUnmodified ==
    \A i \in UpdateVisits :
        LET v == last.log[i]
        IN  v.kind = "disjoint" =>
               /\ v.tOut[v.node] = v.tIn[v.node]
               /\ v.zOut[v.node] = v.zIn[v.node]
               /\ v.start # v.end =>
                     /\ v.zOut[2 * v.node] = v.zIn[2 * v.node]
                     /\ v.zOut[2 * v.node + 1] = v.zIn[2 * v.node + 1]

\* C9 (amended): a node visited by update_recursive whose range is disjoint
\* from [l, r] is changed by the push-down only, never by the update's
\* delta: with d its pending delta on entry, its aggregate has grown by
\* d * (end - start + 1), its pending slot is 0, each child's pending slot
\* (if it is not a leaf) has grown by d, and no other position has changed;
\* so it is unmodified exactly when d = 0.
C9_DisjointPushedOnly ==
    \A i \in UpdateVisits :
        LET v == last.log[i]
            d == v.zIn[v.node]
        IN  v.kind = "disjoint" =>
               /\ v.tOut = [v.tIn EXCEPT ![v.node] = @ + d * RangeLen(v)]
               /\ v.zOut = IF v.start # v.end
                            THEN [v.zIn EXCEPT ![v.node] = 0,
                                               ![2 * v.node] = @ + d,
                                               ![2 * v.node + 1] = @ + d]
                            ELSE [v.zIn EXCEPT ![v.node] = 0]
               /\ (d = 0) <=> (v.tOut = v.tIn /\ v.zOut = v.zIn)

\* C9 witness: an update visited an internal node disjoint from [l, r] that
\* carried a pending delta on entry.
C9_Witness ==
    \E i \in UpdateVisits :
        LET v == last.log[i]
        IN  /\ v.kind = "disjoint"
            /\ v.start # v.end
            /\ v.zIn[v.node] # 0
            /\ v.zOut[v.node] = 0

\* the position of the ancestor k levels above node
RECURSIVE Ancestor(_, _)
Ancestor(node, k) == IF k = 0 THEN node ELSE Ancestor(node \div 2, k - 1)

\* C10: when update_recursive recombines a partially overlapping node, the
\* node's pending delta was pushed down before either child was entered,
\* the node, its ancestors and both children have pending 0, each child's
\* aggregate is the true post-update sum of its range, and the recombined
\* aggregate is the true post-update sum over [start, end].
C10_RecombineCurrent ==
    \A i \in UpdateVisits :
        LET v == last.log[i]
            mid == Mid(v.start, v.end)
        IN  v.kind = "partial" =>
               /\ v.zOut[v.node] = 0
               /\ v.zOut[2 * v.node] = 0
               /\ v.zOut[2 * v.node + 1] = 0
               /\ \A k \in 1 .. v.depth : v.zOut[Ancestor(v.node, k)] = 0
               /\ v.tOut[2 * v.node] = RangeSum(mirror, v.start, mid)
               /\ v.tOut[2 * v.node + 1] = RangeSum(mirror, mid + 1, v.end)
               /\ v.tOut[v.node] = RangeSum(mirror, v.start, v.end)
               /\ \A j \in UpdateVisits :
                     LET c == last.log[j]
                     IN  c.node \in {2 * v.node, 2 * v.node + 1} =>
                            /\ c.zIn[v.node] = 0
                            /\ c.tIn[v.node]
                                  = v.tIn[v.node] + v.zIn[v.node] * RangeLen(v)

\* C10 witness: a partially overlapping node carried a pending delta on
\* entry and one of its children was disjoint from [l, r].
C10_Witness ==
    \E i \in UpdateVisits, j \in UpdateVisits :
        LET v == last.log[i]
            c == last.log[j]
        IN  /\ v.kind = "partial"
            /\ v.zIn[v.node] # 0
            /\ c.node \in {2 * v.node, 2 * v.node + 1}
            /\ c.kind = "disjoint"
            /\ c.zIn[c.node] # 0
            /\ v.tOut[v.node] = RangeSum(mirror, v.start, v.end)

\* the recursive calls of query_recursive made by the last operation
QueryVisits ==
    {i \in DOMAIN last.log : last.log[i].fn = "query"}

\* the vectors after the push-down of a node that held the pending delta d
PushedTree(v, d) == [v.tIn EXCEPT ![v.node] = @ + d * RangeLen(v)]

PushedLazy(v, d) ==
    IF v.start # v.end
    THEN [v.zIn EXCEPT ![v.node] = 0,
                       ![2 * v.node] = @ + d,
                       ![2 * v.node + 1] = @ + d]
    ELSE [v.zIn EXCEPT ![v.node] = 0]

\* C11: a node visited by query_recursive whose range is disjoint from
\* [l, r] returns 0 with no push-down run on it: no position of either
\* vector changes, its pending slot is not cleared; the push-down is run
\* exactly on the visited nodes that overlap [l, r], and a fully contained
\* node returns its aggregate as it stands right after its own push-down.
C11_QueryDisjointUntouched ==
    \A i \in QueryVisits :
        LET v == last.log[i]
            d == v.zIn[v.node]
        IN  /\ v.kind = "disjoint" =>
                  /\ v.ret = 0
                  /\ v.tOut = v.tIn
                  /\ v.zOut = v.zIn
            /\ v.kind = "contained" =>
                  /\ v.tOut = PushedTree(v, d)
                  /\ v.zOut = PushedLazy(v, d)
                  /\ v.ret = v.tIn[v.node] + d * RangeLen(v)
                  /\ v.ret = v.tOut[v.node]
            /\ v.kind = "partial" =>
                  /\ v.zOut[v.node] = 0
                  /\ v.tOut[v.node] = v.tIn[v.node] + d * RangeLen(v)

\* C11 witness: one query visited a disjoint node that kept its non-zero
\* pending delta and a fully contained node that had one pushed down.
C11_Witness ==
    \E i \in QueryVisits, j \in QueryVisits :
        LET v == last.log[i]
            w == last.log[j]
        IN  /\ v.kind = "disjoint"
            /\ v.zIn[v.node] # 0
            /\ v.zOut[v.node] = v.zIn[v.node]
            /\ w.kind = "contained"
            /\ w.zIn[w.node] # 0
            /\ w.ret = w.tIn[w.node] + w.zIn[w.node] * RangeLen(w)

\* the recursive calls of the last operation that ran push on entry: every
\* update_recursive call and every query_recursive call past the disjoint
\* test
PushVisits ==
    {i \in DOMAIN last.log :
        \/ last.log[i].fn = "update"
        \/ last.log[i].fn = "query" /\ last.log[i].kind # "disjoint"}

\* C12: push(node, start, end) with d = lazy[node]: if d # 0, tree[node]
\* grows by d * (end - start + 1), lazy[node] becomes 0 and, only when
\* start # end, lazy[2*node] and lazy[2*node+1] each grow by d (added, not
\* overwritten); when start = end no child slot is read or written; if
\* d = 0 nothing changes; every other position is unchanged and lazy[node]
\* is 0 after every push.
C12_PushFrame ==
    \A i \in PushVisits :
        LET v == last.log[i]
            d == v.zIn[v.node]
            p == push(Run(v.tIn, v.zIn), v.node, v.start, v.end)
            kids == IF v.start # v.end
                    THEN {2 * v.node, 2 * v.node + 1}
                    ELSE {}
        IN  /\ DOMAIN p.tree = DOMAIN v.tIn
            /\ DOMAIN p.lazy = DOMAIN v.zIn
            /\ p.lazy[v.node] = 0
            /\ p.tree[v.node] = v.tIn[v.node] + d * RangeLen(v)
            /\ \A k \in kids : p.lazy[k] = v.zIn[k] + d
            /\ \A k \in DOMAIN v.tIn \ {v.node} : p.tree[k] = v.tIn[k]
            /\ \A k \in DOMAIN v.zIn \ ({v.node} \cup kids) :
                  p.lazy[k] = v.zIn[k]
            /\ p.acc = IF d # 0 THEN {v.node} \cup kids ELSE {v.node}
            /\ d = 0 => (p.tree = v.tIn /\ p.lazy = v.zIn)
            /\ (v.kind = "disjoint" \/ (v.fn = "query" /\ v.kind = "contained"))
                  => (v.tOut = p.tree /\ v.zOut = p.lazy)

\* C12 witness: push ran on an internal node holding a pending delta while
\* one of its children already held one of its own, and on a leaf holding a
\* pending delta.
C12_Witness ==
    \E i \in PushVisits, j \in PushVisits :
        LET v == last.log[i]
            w == last.log[j]
        IN  /\ v.start # v.end
            /\ v.zIn[v.node] # 0
            /\ v.zIn[2 * v.node] # 0
            /\ v.zIn[2 * v.node] + v.zIn[v.node] # v.zIn[v.node]
            /\ w.start = w.end
            /\ w.zIn[w.node] # 0

\* node c lies strictly below node a in the implicit layout
RECURSIVE Below(_, _)
Below(c, a) == c > a /\ (c \div 2 = a \/ Below(c \div 2, a))

\* C13: a node visited by update_recursive whose range lies inside [l, r]
\* is not recursed into: that visit changes at most the node's aggregate and
\* pending slot and, for a non-leaf, its two children's pending slots, and
\* no call is made on a descendant; updateRange(0, N-1, delta) with N >= 2
\* changes exactly tree[1] (by delta * N), lazy[2] and lazy[3] (by delta).
C13_ContainedNoRecursion ==
    /\ \A i \in UpdateVisits :
          LET v == last.log[i]
              kids == IF v.start # v.end
                      THEN {2 * v.node, 2 * v.node + 1}
                      ELSE {}
          IN  v.kind = "contained" =>
                 /\ \A k \in DOMAIN v.tIn \ {v.node} : v.tOut[k] = v.tIn[k]
                 /\ \A k \in DOMAIN v.zIn \ ({v.node} \cup kids) :
                       v.zOut[k] = v.zIn[k]
                 /\ v.tOut[v.node]
                       = v.tIn[v.node] + (v.zIn[v.node] + last.val) * RangeLen(v)
                 /\ \A k \in kids :
                       v.zOut[k] = v.zIn[k] + v.zIn[v.node] + last.val
                 /\ \A j \in DOMAIN last.log :
                       ~Below(last.log[j].node, v.node)
    /\ (last.op = "update" /\ n >= 2 /\ last.l = 0 /\ last.r = n - 1) =>
          /\ Len(last.log) = 1
          /\ last.acc = {1, 2, 3}
          /\ tree = [last.tree0 EXCEPT ![1] = @ + last.val * n]
          /\ lazy = [last.lazy0 EXCEPT ![2] = @ + last.val,
                                       ![3] = @ + last.val]

\* C13 witness: updateRange(0, N-1, delta) ran on a three-element tree
\* whose internal node 2 and leaf 4 both held pending deltas, which are
\* still where they were.
C13_Witness ==
    /\ last.op = "update"
    /\ n = 3
    /\ last.l = 0
    /\ last.r = 2
    /\ last.lazy0[2] # 0
    /\ last.lazy0[4] # 0
    /\ lazy[4] = last.lazy0[4]
    /\ tree[2] = last.tree0[2]
    /\ tree[1] = last.tree0[1] + 3 * last.val

\* C14: for every N >= 1, every position of the aggregate or pending vector
\* that construction, updateRange or queryRange reads or writes (the child
\* slots 2*node and 2*node+1 included) lies in 1 .. 4N-1, inside the
\* vectors of size 4N allocated at construction.
C14_IndicesInBounds ==
    (n >= 1) =>
        /\ last.acc \subseteq 1 .. 4 * n - 1
        /\ last.acc \subseteq DOMAIN tree
        /\ last.acc \subseteq DOMAIN lazy
        /\ \A i \in DOMAIN last.log :
              LET v == last.log[i]
              IN  /\ v.node \in DOMAIN v.tIn
                  /\ v.start # v.end =>
                        {2 * v.node, 2 * v.node + 1} \subseteq DOMAIN v.zIn

\* C14 witness: on a six-element tree (not a power of two) an update wrote
\* the pending slots 12 and 13 of the children of node 6, past position
\* 2N.
C14_Witness ==
    /\ n = 6
    /\ last.op = "update"
    /\ {12, 13} \subseteq last.acc
    /\ lazy[12] # 0
    /\ lazy[13] # 0

\* C15: for every N >= 1 the recursion of build_recursive, update_recursive
\* and query_recursive never goes more than ceil(log2(N)) levels below the
\* root call, which is level 0 and is made on node 1.
C15_RecursionDepth ==
    (n >= 1) =>
        \A i \in DOMAIN last.log :
            LET v == last.log[i]
            IN  /\ v.depth >= 0
                /\ v.depth <= CeilLog2(n)
                /\ (v.depth = 0) <=> (v.node = ROOT_NODE)
                /\ Ancestor(v.node, v.depth) = ROOT_NODE

\* C15 witness: a query on a five-element tree reached level 3, which is
\* ceil(log2(5)).
C15_Witness ==
    /\ n = 5
    /\ last.op = "query"
    /\ \E i \in DOMAIN last.log : last.log[i].depth = 3
    /\ CeilLog2(n) = 3

\* what a node's subtree stands for once its own pending slot is counted
Effective(node, len) == tree[node] + lazy[node] * len

\* C16: between public operations a node's aggregate does not yet include
\* its own pending slot: every internal node satisfies
\* tree[node] = (tree[2*node] + lazy[2*node] * len(left))
\*              + (tree[2*node+1] + lazy[2*node+1] * len(right)),
\* the root's aggregate plus its pending delta on every element is the
\* true total, and every leaf's value is its aggregate plus its own and its
\* ancestors' pending slots.
C16_ChildrenForm ==
    \A v \in Nodes :
        LET mid == Mid(v.start, v.end)
        IN  /\ v.start # v.end =>
                  tree[v.node]
                     = Effective(2 * v.node, mid - v.start + 1)
                       + Effective(2 * v.node + 1, v.end - mid)
            /\ v.node = ROOT_NODE =>
                  Effective(v.node, n) = RangeSum(mirror, 0, n - 1)
            /\ v.start = v.end =>
                  mirror[v.start]
                     = Effective(v.node, 1) + PendingSum(lazy, v.anc)

\* C16 witness: an internal node below the root holds a pending delta and
\* an aggregate that differs from the true sum of its range, while no
\* ancestor of it holds any pending delta.
C16_Witness ==
    \E v \in Nodes :
        /\ v.start # v.end
        /\ v.node # ROOT_NODE
        /\ lazy[v.node] # 0
        /\ PendingSum(lazy, v.anc) = 0
        /\ tree[v.node] # RangeSum(mirror, v.start, v.end)
        /\ Effective(v.node, RangeLen(v)) = RangeSum(mirror, v.start, v.end)

\* C17: for N >= 1, between public operations the root's pending slot
\* lazy[1] is 0 and the root's aggregate tree[1] is the sum of all current
\* element values.
C17_RootCurrent ==
    (n >= 1) =>
        /\ lazy[ROOT_NODE] = 0
        /\ tree[ROOT_NODE] = RangeSum(mirror, 0, n - 1)

\* C17 witness: after an update of part of a three-element tree that held
\* pending deltas below the root, the root's aggregate has moved with the
\* element values.
C17_Witness ==
    /\ n = 3
    /\ last.op = "update"
    /\ ValidRange(n, last.l, last.r)
    /\ last.r - last.l < 2
    /\ last.lazy0[2] # 0
    /\ tree[ROOT_NODE] # last.tree0[ROOT_NODE]
    /\ tree[ROOT_NODE] # RangeSum(arr, 0, 2)
    /\ lazy[ROOT_NODE] = 0

\* what queryRange(l, r) returns after updateRange(a, b, val) on vectors t, z
QueryAfterUpdate(t, z, a, b, val, l, r) ==
    LET u == updateRange(n, t, z, a, b, val)
    IN  queryRange(n, u.tree, u.lazy, l, r).ret

\* C18: queryRange is observationally read-only: after any queryRange call
\* (valid or not) every valid query returns what it would have returned
\* without that call, also after one further valid update (compared when
\* the call rewrote a vector; otherwise the two sides start from the same
\* vectors), and repeating the call returns the same value.
C18_QueryReadOnly ==
    (last.op = "query") =>
        /\ \A lr \in ValidRanges :
              QueryNow(lr[1], lr[2]) = QueryBefore(lr[1], lr[2])
        /\ queryRange(n, tree, lazy, last.l, last.r).ret = last.ret
        /\ (tree # last.tree0 \/ lazy # last.lazy0) =>
              \A ab \in ValidRanges, val \in Deltas, lr \in ValidRanges :
                 QueryAfterUpdate(tree, lazy, ab[1], ab[2], val, lr[1], lr[2])
                    = QueryAfterUpdate(last.tree0, last.lazy0, ab[1], ab[2],
                                       val, lr[1], lr[2])

\* C18 witness: a valid query rewrote both vectors through push-down and
\* the same query still returns the same value.
C18_Witness ==
    /\ last.op = "query"
    /\ ValidRange(n, last.l, last.r)
    /\ tree # last.tree0
    /\ lazy # last.lazy0
    /\ QueryNow(last.l, last.r) = last.ret
    /\ last.ret # RangeSum(arr, last.l, last.r)

\* C19: every recursive call made by the constructor or by a public call
\* that passed the range validation has 0 <= start <= end <= N-1, so a call
\* that returns as disjoint does so because start > r or end < l, never
\* because start > end.
C19_RangesWellFormed ==
    \A i \in DOMAIN last.log :
        LET v == last.log[i]
        IN  /\ 0 <= v.start
            /\ v.start <= v.end
            /\ v.end <= n - 1
            /\ v.kind = "disjoint" => (v.start > last.r \/ v.end < last.l)

\* C19 witness: on an eight-element tree a query returned from a disjoint
\* node on the left of the range and from one on its right, both with
\* start <= end.
C19_Witness ==
    /\ n = 8
    /\ last.op = "query"
    /\ \E i, j \in DOMAIN last.log :
          /\ last.log[i].kind = "disjoint"
          /\ last.log[i].end < last.l
          /\ last.log[i].start <= last.log[i].end
          /\ last.log[j].kind = "disjoint"
          /\ last.log[j].start > last.r
          /\ last.log[j].start <= last.log[j].end

====
